---- MODULE Spec2Model ----
(***************************************************************************)
(* Model of the job lifecycle controller of frontend/js/app.js: the        *)
(* module-level state (currentVideoData, currentJobId, progressInterval),  *)
(* the DOM fields the handlers write, the requests in flight and the live  *)
(* interval timers of the browser's event loop.  Every action is one       *)
(* run-to-completion step of the event loop: a handler up to its first     *)
(* await, or the continuation that runs when a response arrives.           *)
(***************************************************************************)
EXTENDS Integers, Sequences, FiniteSets, Bags, TLC

(* ------------------------------ bounds -------------------------------- *)

\* requests that may be in flight at the same time (all endpoints together)
MaxInFlight == 2

(* --------------------------- JavaScript values ------------------------ *)

\* a field that is missing from a response (undefined)
Absent == "<absent>"
\* a missing numeric field
AbsentNum == -1
\* currentVideoData = null
NoData == [success |-> FALSE]
\* currentJobId = null; also a falsy job_id in a response
NoJob == 0
\* progressInterval = null
NoTimer == 0
\* onclick of the download link before showComplete ever ran
NoHandler == "<none>"

\* truthiness of a string-valued field, as the || operator sees it
Truthy(s) == s # Absent /\ s # ""

\* a || b on string-valued fields
OrElse(a, b) == IF Truthy(a) THEN a ELSE b

\* String.prototype.trim on a sequence of characters
RECURSIVE TrimLeft(_)
TrimLeft(s) ==
    IF s # <<>> /\ Head(s) = " " THEN TrimLeft(Tail(s)) ELSE s

RECURSIVE TrimRight(_)
TrimRight(s) ==
    IF s # <<>> /\ s[Len(s)] = " " THEN TrimRight(SubSeq(s, 1, Len(s) - 1)) ELSE s

Trim(s) == TrimRight(TrimLeft(s))

\* Math.round(data.progress || 0), progress given in tenths of a percent
RoundProgress(p) == IF p = AbsentNum \/ p = 0 THEN 0 ELSE (p + 5) \div 10

(* ------------------------------ messages ------------------------------ *)

MsgEmptyUrl == "Lutfen bir video URL'si girin"
MsgAnalyzeFailed == "Video analiz edilemedi"
MsgDownloadFailed == "Indirme baslatilamadi"
MsgPollFailed == "Indirme basarisiz oldu"
MsgFileFailed == "Dosya indirilirken hata olustu"
MsgConnPrefix == "Baglanti hatasi: "
DefaultFilename == "video.mp4"
DefaultDuration == "00:00"
DefaultTitle == "Bilinmeyen Video"
DefaultUploader == "Bilinmeyen Kanal"
DefaultAlt == "Video Thumbnail"
DefaultSpeed == "-- MB/s"
DefaultEta == "Kalan: --"
EtaPrefix == "Kalan: "

ConnError(text) == MsgConnPrefix \o text

(* --------------------------- sets of inputs ---------------------------- *)

\* what the URL field can hold when a button is clicked: nothing, white space,
\* a URL with white space around it
Urls == {<<>>, <<" ">>, <<" ", "a", " ">>}

\* job identifiers the server hands out
JobIds == {1, 2}

\* error.message of a rejected fetch or of a body that is not JSON
ErrTexts == {"Failed to fetch"}

\* bodies the analyze endpoint can answer with
AnalyzeBodies ==
    { [success |-> TRUE, title |-> "T", uploader |-> "U", duration_string |-> "1:23",
       thumbnail |-> "t.jpg", webpage_url |-> <<"c">>, error |-> Absent],
      [success |-> TRUE, title |-> Absent, uploader |-> Absent, duration_string |-> Absent,
       thumbnail |-> Absent, webpage_url |-> <<>>, error |-> Absent],
      [success |-> FALSE, title |-> Absent, uploader |-> Absent, duration_string |-> Absent,
       thumbnail |-> Absent, webpage_url |-> <<>>, error |-> "no video"],
      [success |-> FALSE, title |-> Absent, uploader |-> Absent, duration_string |-> Absent,
       thumbnail |-> Absent, webpage_url |-> <<>>, error |-> Absent] }

\* bodies the download-start endpoint can answer with
DownloadBodies ==
    { [success |-> TRUE, job_id |-> j, error |-> Absent] : j \in JobIds }
    \cup { [success |-> TRUE, job_id |-> NoJob, error |-> Absent],
           [success |-> FALSE, job_id |-> NoJob, error |-> "busy"],
           [success |-> FALSE, job_id |-> NoJob, error |-> Absent] }

\* bodies the progress endpoint can answer with
PollBodies ==
    { [status |-> "queued", progress |-> AbsentNum, speed |-> Absent, eta |-> Absent,
       filename |-> Absent, error |-> Absent],
      [status |-> "downloading", progress |-> 555, speed |-> "1 MB/s", eta |-> "5s",
       filename |-> Absent, error |-> Absent],
      [status |-> "paused", progress |-> AbsentNum, speed |-> Absent, eta |-> Absent,
       filename |-> Absent, error |-> Absent],
      [status |-> "completed", progress |-> AbsentNum, speed |-> Absent, eta |-> Absent,
       filename |-> "x.mp4", error |-> Absent],
      [status |-> "failed", progress |-> AbsentNum, speed |-> Absent, eta |-> Absent,
       filename |-> Absent, error |-> "disk full"],
      [status |-> "failed", progress |-> AbsentNum, speed |-> Absent, eta |-> Absent,
       filename |-> Absent, error |-> Absent] }

\* outcomes of the file endpoint: response.ok, a non-success status, a rejected fetch
FileOutcomes == {"ok", "notok", "neterr"}

Sections == {"videoCard", "progressSection", "completeSection", "errorSection"}

(* ------------------------------- state -------------------------------- *)

VARIABLES
    currentVideoData,   \* the stored analyze response, or NoData
    currentJobId,       \* the stored job identifier, or NoJob
    progressInterval,   \* the stored timer handle, or NoTimer
    timers,             \* the interval timers the browser holds (live)
    loading,            \* elements.analyzeBtn.disabled
    visible,            \* the sections that do not carry the class hidden
    errorMessage,       \* elements.errorMessage.textContent
    videoInfo,          \* thumbnail, duration, title and uploader as displayed
    progressView,       \* percent, fill width, speed and eta as displayed
    downloadFilename,   \* elements.downloadFilename.textContent
    downloadLinkFile,   \* the filename the onclick closure of the link holds
    analyzeReqs,        \* analyze requests in flight
    downloadReqs,       \* download-start requests in flight
    progressReqs,       \* progress requests in flight, a bag of job identifiers
    fileReqs,           \* file requests in flight, a bag of the filenames their closures hold
    event               \* the step the event loop ran last: the handler, the body it
                        \* received and the timer handle stored when it started

vars == <<currentVideoData, currentJobId, progressInterval, timers,
          loading, visible, errorMessage, videoInfo, progressView,
          downloadFilename, downloadLinkFile, analyzeReqs, downloadReqs,
          progressReqs, fileReqs, event>>

\* the module-level variables
ctl == <<currentVideoData, currentJobId, progressInterval, timers>>
\* the DOM fields the handlers write.  elements.urlInput.value is not among
\* them: the user may overwrite the field before any click, so what a handler
\* reads from it is an input of that handler (typed), and the '' that resetApp
\* writes to it is one of the values the next click may find there.
dom == <<loading, visible, errorMessage, videoInfo, progressView,
         downloadFilename, downloadLinkFile>>
\* the requests in flight
net == <<analyzeReqs, downloadReqs, progressReqs, fileReqs>>

InFlight ==
    analyzeReqs + downloadReqs + BagCardinality(progressReqs) + BagCardinality(fileReqs)

Init ==
    /\ currentVideoData = NoData
    /\ currentJobId = NoJob
    /\ progressInterval = NoTimer
    /\ timers = {}
    /\ loading = FALSE
    /\ visible = {}
    /\ errorMessage = ""
    /\ videoInfo = [src |-> "", alt |-> "", duration |-> "", title |-> "", uploader |-> ""]
    /\ progressView = [percent |-> 0, fill |-> 0, speed |-> DefaultSpeed, eta |-> DefaultEta]
    /\ downloadFilename = ""
    /\ downloadLinkFile = NoHandler
    /\ analyzeReqs = 0
    /\ downloadReqs = 0
    /\ progressReqs = EmptyBag
    /\ fileReqs = EmptyBag
    /\ event = [op |-> "init"]

(* ------------------------- the view functions -------------------------- *)

\* hideAllSections: the sections visible afterwards
HideAllSections == {}

\* showError(message)
ShowError(message) ==
    /\ visible' = HideAllSections \cup {"errorSection"}
    /\ errorMessage' = message

\* setLoading(flag)
SetLoading(flag) == loading' = flag

\* displayVideoInfo(data): the displayed fields afterwards.  The quality menu
\* it refills holds the same fixed options whatever data.formats lists.
DisplayVideoInfo(data) ==
    [src |-> OrElse(data.thumbnail, ""),
     alt |-> OrElse(data.title, DefaultAlt),
     duration |-> OrElse(data.duration_string, DefaultDuration),
     title |-> OrElse(data.title, DefaultTitle),
     uploader |-> OrElse(data.uploader, DefaultUploader)]

\* updateProgress(data): the displayed progress afterwards
UpdateProgress(data) ==
    [percent |-> RoundProgress(data.progress),
     fill |-> RoundProgress(data.progress),
     speed |-> OrElse(data.speed, DefaultSpeed),
     eta |-> IF Truthy(data.eta) THEN EtaPrefix \o data.eta ELSE DefaultEta]

\* showComplete(data)
ShowComplete(data) ==
    /\ visible' = HideAllSections \cup {"completeSection"}
    /\ downloadFilename' = OrElse(data.filename, DefaultFilename)
    /\ downloadLinkFile' = OrElse(data.filename, DefaultFilename)

(* ------------------------------ the timer ------------------------------ *)

\* setInterval: a handle no live timer has
NewTimerId(live) == CHOOSE t \in 1..(Cardinality(live) + 1) : t \notin live

\* stopProgressPolling that forgets the handle but not the timer
StopProgressPollingNoCancel ==
    /\ progressInterval' = NoTimer
    /\ UNCHANGED timers

\* stopProgressPolling that cancels the timer and keeps its handle stored
StopProgressPollingKeepsHandle ==
    /\ timers' = timers \ {progressInterval}
    /\ UNCHANGED progressInterval

\* stopProgressPolling
StopProgressPolling ==
    IF progressInterval # NoTimer
    THEN /\ timers' = timers \ {progressInterval}
         /\ progressInterval' = NoTimer
    ELSE UNCHANGED <<timers, progressInterval>>

\* startProgressPolling without its clearInterval
StartProgressPollingNoClear ==
    /\ timers' = timers \cup {NewTimerId(timers)}
    /\ progressInterval' = NewTimerId(timers)

\* startProgressPolling: clear the stored timer, then create the new one
StartProgressPolling ==
    LET live == IF progressInterval # NoTimer
                THEN timers \ {progressInterval}
                ELSE timers
    IN  /\ timers' = live \cup {NewTimerId(live)}
        /\ progressInterval' = NewTimerId(live)

(* ------------------------------ analyze -------------------------------- *)

\* handleAnalyze that tests the raw value of the field, not the trimmed one
HandleAnalyzeNoTrim(typed) ==
    /\ event' = [op |-> "analyze", url |-> typed]
    /\ IF typed = <<>>
       THEN /\ ShowError(MsgEmptyUrl)
            /\ UNCHANGED <<ctl, net, loading, videoInfo, progressView,
                           downloadFilename, downloadLinkFile>>
       ELSE /\ InFlight < MaxInFlight
            /\ SetLoading(TRUE)
            /\ visible' = HideAllSections
            /\ analyzeReqs' = analyzeReqs + 1
            /\ UNCHANGED <<ctl, downloadReqs, progressReqs, fileReqs,
                           errorMessage, videoInfo, progressView,
                           downloadFilename, downloadLinkFile>>

\* handleAnalyze up to its await; typed is the value the user left in the URL
\* field before the click
HandleAnalyze(typed) ==
    LET url == Trim(typed)
    IN  /\ event' = [op |-> "analyze", url |-> typed]
        /\ IF url = <<>>
           THEN /\ ShowError(MsgEmptyUrl)
                /\ UNCHANGED <<ctl, net, loading, videoInfo, progressView,
                               downloadFilename, downloadLinkFile>>
           ELSE /\ InFlight < MaxInFlight
                /\ SetLoading(TRUE)
                /\ visible' = HideAllSections
                /\ analyzeReqs' = analyzeReqs + 1
                /\ UNCHANGED <<ctl, downloadReqs, progressReqs, fileReqs,
                               errorMessage, videoInfo, progressView,
                               downloadFilename, downloadLinkFile>>

\* handleAnalyze after its await: a body arrived
AnalyzeResponse(data) ==
    /\ analyzeReqs > 0
    /\ analyzeReqs' = analyzeReqs - 1
    /\ event' = [op |-> "analyzeResponse", data |-> data]
    /\ IF data.success
       THEN /\ currentVideoData' = data
            /\ videoInfo' = DisplayVideoInfo(data)
            /\ visible' = visible \cup {"videoCard"}
            /\ UNCHANGED errorMessage
       ELSE /\ ShowError(OrElse(data.error, MsgAnalyzeFailed))
            /\ UNCHANGED <<currentVideoData, videoInfo>>
    /\ SetLoading(FALSE)
    /\ UNCHANGED <<currentJobId, progressInterval, timers, downloadReqs, progressReqs,
                   fileReqs, progressView, downloadFilename, downloadLinkFile>>

\* handleAnalyze after its await: fetch or response.json() rejected
AnalyzeFailure(text) ==
    /\ analyzeReqs > 0
    /\ analyzeReqs' = analyzeReqs - 1
    /\ event' = [op |-> "analyzeFailure", text |-> text]
    /\ ShowError(ConnError(text))
    /\ SetLoading(FALSE)
    /\ UNCHANGED <<ctl, downloadReqs, progressReqs, fileReqs, videoInfo,
                   progressView, downloadFilename, downloadLinkFile>>

(* ------------------------------ download ------------------------------- *)

\* the URL handleDownload sends
DownloadUrl(typed) ==
    IF currentVideoData # NoData /\ currentVideoData.webpage_url # <<>>
    THEN currentVideoData.webpage_url
    ELSE Trim(typed)

\* handleDownload up to its await; typed is the value the user left in the URL
\* field before the click
HandleDownload(typed) ==
    /\ InFlight < MaxInFlight
    /\ event' = [op |-> "download", url |-> DownloadUrl(typed)]
    /\ visible' = HideAllSections \cup {"progressSection"}
    /\ downloadReqs' = downloadReqs + 1
    /\ UNCHANGED <<ctl, analyzeReqs, progressReqs, fileReqs, loading,
                   errorMessage, videoInfo, progressView, downloadFilename,
                   downloadLinkFile>>

\* handleDownload that keeps a job identifier it already holds
DownloadResponseKeepFirst(data) ==
    /\ downloadReqs > 0
    /\ downloadReqs' = downloadReqs - 1
    /\ event' = [op |-> "downloadResponse", data |-> data, stored |-> progressInterval]
    /\ IF data.success /\ data.job_id # NoJob
       THEN /\ currentJobId' = IF currentJobId = NoJob THEN data.job_id ELSE currentJobId
            /\ StartProgressPolling
            /\ UNCHANGED <<visible, errorMessage>>
       ELSE /\ ShowError(OrElse(data.error, MsgDownloadFailed))
            /\ UNCHANGED <<currentJobId, progressInterval, timers>>
    /\ UNCHANGED <<currentVideoData, analyzeReqs, progressReqs, fileReqs,
                   loading, videoInfo, progressView, downloadFilename, downloadLinkFile>>

\* handleDownload that tests data.success only, not data.job_id
DownloadResponseNoJobCheck(data) ==
    /\ downloadReqs > 0
    /\ downloadReqs' = downloadReqs - 1
    /\ event' = [op |-> "downloadResponse", data |-> data, stored |-> progressInterval]
    /\ IF data.success
       THEN /\ currentJobId' = data.job_id
            /\ StartProgressPolling
            /\ UNCHANGED <<visible, errorMessage>>
       ELSE /\ ShowError(OrElse(data.error, MsgDownloadFailed))
            /\ UNCHANGED <<currentJobId, progressInterval, timers>>
    /\ UNCHANGED <<currentVideoData, analyzeReqs, progressReqs, fileReqs,
                   loading, videoInfo, progressView, downloadFilename, downloadLinkFile>>

\* handleDownload after its await: a body arrived
DownloadResponse(data) ==
    /\ downloadReqs > 0
    /\ downloadReqs' = downloadReqs - 1
    /\ event' = [op |-> "downloadResponse", data |-> data, stored |-> progressInterval]
    /\ IF data.success /\ data.job_id # NoJob
       THEN /\ currentJobId' = data.job_id
            /\ StartProgressPolling
            /\ UNCHANGED <<visible, errorMessage>>
       ELSE /\ ShowError(OrElse(data.error, MsgDownloadFailed))
            /\ UNCHANGED <<currentJobId, progressInterval, timers>>
    /\ UNCHANGED <<currentVideoData, analyzeReqs, progressReqs, fileReqs,
                   loading, videoInfo, progressView, downloadFilename, downloadLinkFile>>

\* handleDownload after its await: fetch or response.json() rejected
DownloadFailure(text) ==
    /\ downloadReqs > 0
    /\ downloadReqs' = downloadReqs - 1
    /\ event' = [op |-> "downloadFailure", text |-> text]
    /\ ShowError(ConnError(text))
    /\ UNCHANGED <<ctl, analyzeReqs, progressReqs, fileReqs, loading,
                   videoInfo, progressView, downloadFilename, downloadLinkFile>>

(* ------------------------------- polling ------------------------------- *)

\* the interval callback up to its await: one progress request for the stored job
PollTick(t) ==
    /\ t \in timers
    /\ InFlight < MaxInFlight
    /\ event' = [op |-> "tick"]
    /\ progressReqs' = progressReqs (+) SetToBag({currentJobId})
    /\ UNCHANGED <<ctl, dom, analyzeReqs, downloadReqs, fileReqs>>

\* the interval callback that shows the error field of a failed job as it is
PollResponseNoFallback(job, data) ==
    /\ BagIn(job, progressReqs)
    /\ progressReqs' = progressReqs (-) SetToBag({job})
    /\ event' = [op |-> "pollResponse", job |-> job, data |-> data,
                 stored |-> progressInterval]
    /\ progressView' = UpdateProgress(data)
    /\ IF data.status = "completed"
       THEN /\ StopProgressPolling
            /\ ShowComplete(data)
            /\ UNCHANGED errorMessage
       ELSE IF data.status = "failed"
       THEN /\ StopProgressPolling
            /\ ShowError(data.error)
            /\ UNCHANGED <<downloadFilename, downloadLinkFile>>
       ELSE UNCHANGED <<progressInterval, timers, visible, errorMessage,
                        downloadFilename, downloadLinkFile>>
    /\ UNCHANGED <<currentVideoData, currentJobId, analyzeReqs, downloadReqs, fileReqs,
                   loading, videoInfo>>

\* the interval callback that takes every status it does not know for a failure
PollResponseUnknownFails(job, data) ==
    /\ BagIn(job, progressReqs)
    /\ progressReqs' = progressReqs (-) SetToBag({job})
    /\ event' = [op |-> "pollResponse", job |-> job, data |-> data,
                 stored |-> progressInterval]
    /\ progressView' = UpdateProgress(data)
    /\ IF data.status = "completed"
       THEN /\ StopProgressPolling
            /\ ShowComplete(data)
            /\ UNCHANGED errorMessage
       ELSE IF data.status \notin {"queued", "downloading"}
       THEN /\ StopProgressPolling
            /\ ShowError(OrElse(data.error, MsgPollFailed))
            /\ UNCHANGED <<downloadFilename, downloadLinkFile>>
       ELSE UNCHANGED <<progressInterval, timers, visible, errorMessage,
                        downloadFilename, downloadLinkFile>>
    /\ UNCHANGED <<currentVideoData, currentJobId, analyzeReqs, downloadReqs, fileReqs,
                   loading, videoInfo>>

\* the interval callback after its await: a body arrived for a request for job
PollResponse(job, data) ==
    /\ BagIn(job, progressReqs)
    /\ progressReqs' = progressReqs (-) SetToBag({job})
    /\ event' = [op |-> "pollResponse", job |-> job, data |-> data,
                 stored |-> progressInterval]
    /\ progressView' = UpdateProgress(data)
    /\ IF data.status = "completed"
       THEN /\ StopProgressPolling
            /\ ShowComplete(data)
            /\ UNCHANGED errorMessage
       ELSE IF data.status = "failed"
       THEN /\ StopProgressPolling
            /\ ShowError(OrElse(data.error, MsgPollFailed))
            /\ UNCHANGED <<downloadFilename, downloadLinkFile>>
       ELSE UNCHANGED <<progressInterval, timers, visible, errorMessage,
                        downloadFilename, downloadLinkFile>>
    /\ UNCHANGED <<currentVideoData, currentJobId, analyzeReqs, downloadReqs, fileReqs,
                   loading, videoInfo>>

\* the interval callback whose catch block gives up the download
PollFailureGivesUp(job, text) ==
    /\ BagIn(job, progressReqs)
    /\ progressReqs' = progressReqs (-) SetToBag({job})
    /\ event' = [op |-> "pollFailure", job |-> job, text |-> text]
    /\ StopProgressPolling
    /\ ShowError(ConnError(text))
    /\ UNCHANGED <<currentVideoData, currentJobId, analyzeReqs, downloadReqs, fileReqs,
                   loading, videoInfo, progressView, downloadFilename,
                   downloadLinkFile>>

\* the interval callback after its await: fetch or response.json() rejected;
\* the catch block only logs
PollFailure(job, text) ==
    /\ BagIn(job, progressReqs)
    /\ progressReqs' = progressReqs (-) SetToBag({job})
    /\ event' = [op |-> "pollFailure", job |-> job, text |-> text]
    /\ UNCHANGED <<ctl, dom, analyzeReqs, downloadReqs, fileReqs>>

(* ---------------------------- file retrieval --------------------------- *)

\* the onclick handler of the download link up to its await
ClickDownloadLink ==
    /\ downloadLinkFile # NoHandler
    /\ InFlight < MaxInFlight
    /\ event' = [op |-> "click"]
    /\ fileReqs' = fileReqs (+) SetToBag({downloadLinkFile})
    /\ UNCHANGED <<ctl, dom, analyzeReqs, downloadReqs, progressReqs>>

\* the onclick handler after its await
FileResponse(filename, outcome) ==
    /\ BagIn(filename, fileReqs)
    /\ fileReqs' = fileReqs (-) SetToBag({filename})
    /\ event' = [op |-> "fileResponse", outcome |-> outcome,
                 saved |-> IF outcome = "ok" THEN filename ELSE Absent]
    /\ IF outcome = "ok"
       THEN UNCHANGED <<visible, errorMessage>>
       ELSE ShowError(MsgFileFailed)
    /\ UNCHANGED <<ctl, analyzeReqs, downloadReqs, progressReqs, loading,
                   videoInfo, progressView, downloadFilename, downloadLinkFile>>

(* -------------------------------- reset -------------------------------- *)

\* resetApp that clears the job handle and leaves the timer running
ResetAppNoStop ==
    /\ event' = [op |-> "reset"]
    /\ UNCHANGED <<timers, progressInterval>>
    /\ currentVideoData' = NoData
    /\ currentJobId' = NoJob
    /\ progressView' = [progressView EXCEPT !.fill = 0, !.percent = 0]
    /\ visible' = HideAllSections
    /\ UNCHANGED <<net, loading, errorMessage, videoInfo, downloadFilename,
                   downloadLinkFile>>

\* resetApp, bound to the new-download and the retry button
ResetApp ==
    /\ event' = [op |-> "reset"]
    /\ StopProgressPolling
    /\ currentVideoData' = NoData
    /\ currentJobId' = NoJob
    /\ progressView' = [progressView EXCEPT !.fill = 0, !.percent = 0]
    /\ visible' = HideAllSections
    /\ UNCHANGED <<net, loading, errorMessage, videoInfo, downloadFilename,
                   downloadLinkFile>>

Next ==
    \/ \E typed \in Urls : HandleAnalyze(typed)
    \/ \E data \in AnalyzeBodies : AnalyzeResponse(data)
    \/ \E text \in ErrTexts : AnalyzeFailure(text)
    \/ \E typed \in Urls : HandleDownload(typed)
    \/ \E data \in DownloadBodies : DownloadResponse(data)
    \/ \E text \in ErrTexts : DownloadFailure(text)
    \/ \E t \in timers : PollTick(t)
    \/ \E job \in JobIds \cup {NoJob}, data \in PollBodies : PollResponse(job, data)
    \/ \E job \in JobIds \cup {NoJob}, text \in ErrTexts : PollFailure(job, text)
    \/ ClickDownloadLink
    \/ \E filename \in BagToSet(fileReqs), outcome \in FileOutcomes :
          FileResponse(filename, outcome)
    \/ ResetApp

Spec == Init /\ [][Next]_vars

(* -------------------- a download left to run to its end ---------------- *)
(* The behaviours in which the user stops acting once a job handle is      *)
(* stored, the timer keeps firing, every response is delivered, and the    *)
(* server reports for every job, after statuses in progress, the one       *)
(* status the job ends with.                                               *)

\* the status the server reports for a job once the job has ended: the first
\* job succeeds, the second fails
JobEnds(job) == IF job = 1 THEN "completed" ELSE "failed"

\* the bodies the progress endpoint answers a request for job with
ServerAnswers(job) ==
    { d \in PollBodies : d.status \notin {"completed", "failed"} \/ d.status = JobEnds(job) }

\* those that report the end of the job
FinalAnswers(job) == { d \in ServerAnswers(job) : d.status = JobEnds(job) }

\* the user acts only while no job handle is stored
UserActs ==
    \/ \E typed \in Urls : currentJobId = NoJob /\ HandleAnalyze(typed)
    \/ \E typed \in Urls : currentJobId = NoJob /\ HandleDownload(typed)
    \/ currentJobId = NoJob /\ ResetApp

AnalyzeDelivered ==
    \/ \E data \in AnalyzeBodies : AnalyzeResponse(data)
    \/ \E text \in ErrTexts : AnalyzeFailure(text)

DownloadDelivered ==
    \/ \E data \in DownloadBodies : DownloadResponse(data)
    \/ \E text \in ErrTexts : DownloadFailure(text)

PollDelivered ==
    \/ \E job \in JobIds, data \in PollBodies :
          data \in ServerAnswers(job) /\ PollResponse(job, data)
    \/ \E job \in JobIds, text \in ErrTexts : PollFailure(job, text)

TimerFires == \E t \in timers : PollTick(t)

\* the server reports the end of job
JobEndReported(job) == \E data \in FinalAnswers(job) : PollResponse(job, data)

LiveNext ==
    \/ UserActs
    \/ AnalyzeDelivered
    \/ DownloadDelivered
    \/ TimerFires
    \/ PollDelivered

\* setInterval fires its callback again and again while the timer is live; a
\* request in flight is answered or fails; a job that is asked about again and
\* again is reported ended
LiveFairness ==
    /\ WF_vars(TimerFires)
    /\ WF_vars(AnalyzeDelivered)
    /\ WF_vars(DownloadDelivered)
    /\ WF_vars(PollDelivered)
    /\ \A job \in JobIds : SF_vars(JobEndReported(job))

LiveSpec == Init /\ [][LiveNext]_vars /\ LiveFairness

(* ------------------------------ the phases ----------------------------- *)
(* The controller keeps no phase variable: the phase is what the page      *)
(* shows, the one section that is not hidden, or the loader of the analyze *)
(* button while no section is shown.                                       *)

Idle == visible = {} /\ ~loading
Analyzing == visible = {} /\ loading
Ready == visible = {"videoCard"}
Downloading == visible = {"progressSection"}
Completed == visible = {"completeSection"}
Failed == visible = {"errorSection"}

\* a download-start response that handleDownload accepts
Started(e) == e.op = "downloadResponse" /\ e.data.success /\ e.data.job_id # NoJob

\* a progress response with the given status
Polled(e, status) == e.op = "pollResponse" /\ e.data.status = status

\* a step whose handler calls stopProgressPolling
Stops(e) == e.op = "reset" \/ Polled(e, "completed") \/ Polled(e, "failed")

\* the steps that start with the user: a click on a button or on the link,
\* Enter in the URL field
UserOps == {"analyze", "download", "reset", "click"}

(* ------------------------------- claims -------------------------------- *)

\* C1: in every reachable state at most one interval timer is live, and it is
\* the one whose handle is stored: a download that starts while the timer of
\* an earlier download runs cancels that timer before it creates its own.
C1_AtMostOneTimer ==
    /\ Cardinality(timers) <= 1
    /\ timers = IF progressInterval = NoTimer THEN {} ELSE {progressInterval}

\* C1 witness: a download-start response was accepted while a timer handle
\* was stored, and one timer is live afterwards.
C1_Witness ==
    /\ Started(event)
    /\ event.stored # NoTimer
    /\ Cardinality(timers) = 1

\* C2 (as claimed): right after startDownload is invoked, before its response
\* arrives, no polling timer is live.
C2_DownloadStopsPollingFirst ==
    event.op = "download" => timers = {} /\ progressInterval = NoTimer

\* C3 (as claimed): reset leaves the controller in Idle with metadata, job
\* handle and timer cleared and the percent at 0, and issues no request.
C3_ResetReturnsToIdle ==
    [][event'.op = "reset" =>
          /\ Idle'
          /\ currentVideoData' = NoData
          /\ currentJobId' = NoJob
          /\ progressView'.percent = 0
          /\ progressView'.fill = 0
          /\ timers' = {}
          /\ progressInterval' = NoTimer
          /\ UNCHANGED net]_vars

\* C4 (as claimed): in Idle and in Analyzing no metadata and no job handle is
\* stored.
C4_MetadataOnlyFromReady ==
    (Idle \/ Analyzing) => currentVideoData = NoData /\ currentJobId = NoJob

\* C5: an accepted download-start response makes its job identifier the
\* stored handle, and every tick issues exactly one progress request, for the
\* handle stored at that moment; so no request is issued for an earlier
\* handle once the new one is stored.
C5_NewJobReplacesHandle ==
    [][/\ Started(event') => currentJobId' = event'.data.job_id
       /\ event'.op = "tick" =>
              /\ currentJobId' = currentJobId
              /\ progressReqs' = progressReqs (+) SetToBag({currentJobId})]_vars

\* C5 witness: a tick has issued a request for the new handle 2 while a
\* request for the earlier handle 1 is still in flight.
C5_Witness ==
    /\ event.op = "tick"
    /\ currentJobId = 2
    /\ BagIn(1, progressReqs)
    /\ BagIn(2, progressReqs)

\* C6: handling a progress response with status completed cancels the timer
\* and shows Completed with the filename of the response; a progress request
\* is issued only while a timer is live, and a timer comes to life only when
\* a download-start response is accepted.
C6_CompletedStopsPolling ==
    [][/\ Polled(event', "completed") =>
              /\ timers' = {}
              /\ progressInterval' = NoTimer
              /\ Completed'
              /\ downloadFilename' = event'.data.filename
              /\ downloadLinkFile' = event'.data.filename
       /\ BagCardinality(progressReqs') > BagCardinality(progressReqs) => timers # {}
       /\ timers = {} /\ timers' # {} => Started(event')]_vars

\* C6 witness: a completed response named x.mp4 was handled while a timer
\* handle was stored.
C6_Witness ==
    /\ Polled(event, "completed")
    /\ event.stored # NoTimer
    /\ event.data.filename = "x.mp4"
    /\ Completed

\* C7: handling a progress response with status failed cancels the timer and
\* shows Failed with the error text of the response, or with the generic
\* message when the response carries none.
C7_FailedStopsPolling ==
    Polled(event, "failed") =>
        /\ timers = {}
        /\ progressInterval = NoTimer
        /\ Failed
        /\ errorMessage = IF Truthy(event.data.error)
                          THEN event.data.error
                          ELSE MsgPollFailed

\* C7 witness: a failed response without an error text was handled while a
\* timer handle was stored.
C7_Witness ==
    /\ Polled(event, "failed")
    /\ event.stored # NoTimer
    /\ ~Truthy(event.data.error)
    /\ errorMessage = MsgPollFailed

\* C8: a progress request that fails in transport or parsing changes nothing
\* but the set of requests in flight: phase, job handle, snapshot, timer and
\* error text stay, and the live timer can tick again.
C8_PollFailureSwallowed ==
    /\ [](event.op = "pollFailure" /\ timers # {} => ENABLED (\E t \in timers : PollTick(t)))
    /\ [][event'.op = "pollFailure" =>
              UNCHANGED <<ctl, dom, analyzeReqs, downloadReqs, fileReqs>>]_vars

\* C8 witness: a progress request failed while the controller shows
\* Downloading with a live timer.
C8_Witness ==
    /\ event.op = "pollFailure"
    /\ Downloading
    /\ timers # {}
    /\ currentJobId # NoJob

\* C9: analyze with a URL that is empty after trimming shows Failed with the
\* empty-URL message, issues no request and leaves metadata, job handle,
\* timer and loading flag as they were.
C9_EmptyUrlRejected ==
    [][event'.op = "analyze" /\ Trim(event'.url) = <<>> =>
          /\ Failed'
          /\ errorMessage' = MsgEmptyUrl
          /\ UNCHANGED <<ctl, net, loading>>]_vars

\* C9 witness: analyze was invoked on a field holding only white space while
\* metadata is stored and a timer is live.
C9_Witness ==
    /\ event.op = "analyze"
    /\ event.url = <<" ">>
    /\ errorMessage = MsgEmptyUrl
    /\ currentVideoData # NoData
    /\ timers # {}

\* C10 (as claimed): a file retrieval that fails while the controller shows
\* Completed leaves it in Completed.
C10_FileFailureKeepsCompleted ==
    [][Completed /\ event'.op = "fileResponse" /\ event'.outcome # "ok" => Completed']_vars

\* C11 (as claimed): an analyze response with success true leaves the
\* controller in Ready with the response stored as metadata, every displayed
\* field equal to the field of the response or, where the response has none,
\* to its default, and the loading flag cleared.
C11_SuccessYieldsReady ==
    event.op = "analyzeResponse" /\ event.data.success =>
        /\ Ready
        /\ currentVideoData = event.data
        /\ videoInfo.title = IF Truthy(event.data.title) THEN event.data.title ELSE DefaultTitle
        /\ videoInfo.uploader = IF Truthy(event.data.uploader) THEN event.data.uploader
                                ELSE DefaultUploader
        /\ videoInfo.duration = IF Truthy(event.data.duration_string)
                                THEN event.data.duration_string ELSE DefaultDuration
        /\ videoInfo.src = IF Truthy(event.data.thumbnail) THEN event.data.thumbnail ELSE ""
        /\ ~loading

\* C12: every failure of analyze or of startDownload is handled and shows
\* Failed: a response without success (for startDownload also a success
\* response without a job identifier) shows the error text of the response or
\* the generic message of its operation, a transport or parse failure shows
\* the connection-error prefix followed by the text of the error; none of
\* them stores a job handle or starts a timer.
C12_FailuresEndInFailed ==
    [][/\ event'.op = "analyzeResponse" /\ ~event'.data.success =>
              /\ Failed'
              /\ errorMessage' = IF Truthy(event'.data.error)
                                 THEN event'.data.error ELSE MsgAnalyzeFailed
              /\ UNCHANGED <<currentJobId, progressInterval, timers>>
       /\ event'.op = "downloadResponse" /\ ~Started(event') =>
              /\ Failed'
              /\ errorMessage' = IF Truthy(event'.data.error)
                                 THEN event'.data.error ELSE MsgDownloadFailed
              /\ UNCHANGED <<currentJobId, progressInterval, timers>>
       /\ event'.op \in {"analyzeFailure", "downloadFailure"} =>
              /\ Failed'
              /\ errorMessage' = MsgConnPrefix \o event'.text
              /\ UNCHANGED <<currentJobId, progressInterval, timers>>]_vars

\* C12 witness: a download-start response with success true and no job
\* identifier was handled, the generic message is shown and no handle is stored.
C12_Witness ==
    /\ event.op = "downloadResponse"
    /\ event.data.success
    /\ event.data.job_id = NoJob
    /\ Failed
    /\ errorMessage = MsgDownloadFailed
    /\ currentJobId = NoJob
    /\ timers = {}

\* C13 (as claimed): once a download-start response is accepted and the user
\* acts no more, the timer fires and responses are delivered, the controller
\* eventually shows the phase the stored job ends with (Completed for a job
\* the server reports completed, Failed for one it reports failed) with the
\* timer cancelled.
C13_StartedJobEnds ==
    Started(event) ~>
        /\ timers = {}
        /\ progressInterval = NoTimer
        /\ IF JobEnds(currentJobId) = "completed" THEN Completed ELSE Failed

\* C14: stopProgressPolling cancels the stored timer and forgets its handle;
\* called while no handle is stored it changes neither the timers nor the
\* handle, and called by two steps in a row it leaves, the second time, what
\* the first call left.
C14_StopIdempotent ==
    [][Stops(event') =>
          /\ timers' = timers \ {progressInterval}
          /\ progressInterval' = NoTimer
          /\ progressInterval = NoTimer => UNCHANGED <<timers, progressInterval>>
          /\ Stops(event) => UNCHANGED <<timers, progressInterval>>]_vars

\* C14 witness: a failed response was handled, and stopProgressPolling
\* called, while no handle was stored; a progress request is still in flight.
C14_Witness ==
    /\ Polled(event, "failed")
    /\ event.stored = NoTimer
    /\ timers = {}
    /\ progressReqs # EmptyBag

\* C15: handling a progress response whose status is neither completed nor
\* failed changes the displayed progress and nothing else of the controller:
\* timer, job handle, metadata and view stay, so a controller that shows
\* Downloading with a live timer keeps showing it with that timer live.
C15_InProgressUpdatesSnapshotOnly ==
    [][event'.op = "pollResponse" /\ event'.data.status \notin {"completed", "failed"} =>
          /\ UNCHANGED <<ctl, loading, visible, errorMessage, videoInfo,
                         downloadFilename, downloadLinkFile,
                         analyzeReqs, downloadReqs, fileReqs>>
          /\ progressView'.percent =
                 IF event'.data.progress = AbsentNum THEN 0
                 ELSE (event'.data.progress + 5) \div 10
          /\ progressView'.fill = progressView'.percent
          /\ progressView'.speed = IF Truthy(event'.data.speed)
                                   THEN event'.data.speed ELSE DefaultSpeed
          /\ progressView'.eta = IF Truthy(event'.data.eta)
                                 THEN EtaPrefix \o event'.data.eta ELSE DefaultEta
          /\ Downloading /\ timers # {} => Downloading' /\ timers' # {}]_vars

\* C15 witness: a response with a status the controller does not know was
\* handled while it shows Downloading with a live timer and a stored handle.
C15_Witness ==
    /\ Polled(event, "paused")
    /\ Downloading
    /\ timers # {}
    /\ event.stored # NoTimer
    /\ currentJobId # NoJob

\* C16: while a timer is live a job handle is stored, and no progress request
\* in flight was issued for the null handle: a tick never finds
\* currentJobId null.
C16_TimerImpliesJob ==
    /\ timers # {} => currentJobId # NoJob
    /\ ~BagIn(NoJob, progressReqs)

\* C16 witness: a tick has issued a request for the stored handle after an
\* earlier download was reset (a request for the other job is still in flight).
C16_Witness ==
    /\ event.op = "tick"
    /\ timers # {}
    /\ currentJobId = 1
    /\ progressReqs = SetToBag({1, 2})
    /\ currentVideoData = NoData

\* C17 (as claimed): a step that does not start with the user (a timer tick,
\* an arriving response) and is taken in Failed leaves the controller in
\* Failed with the same message and issues no request.
C17_FailedLeftOnlyByUser ==
    [][Failed /\ event'.op \notin UserOps =>
          /\ Failed'
          /\ errorMessage' = errorMessage
          /\ InFlight' <= InFlight]_vars

\* C18 (as claimed): a progress response asked for a job that is no longer
\* the stored handle is dropped: it changes neither the displayed progress
\* nor the view nor the timer; so a completed response that is applied is
\* about the stored handle, which is not null.
C18_StaleResponseDropped ==
    [][/\ event'.op = "pollResponse" /\ event'.job # currentJobId =>
              UNCHANGED <<ctl, dom>>
       /\ Polled(event', "completed") /\ Completed' =>
              /\ currentJobId' # NoJob
              /\ currentJobId' = event'.job]_vars

\* C19 (as claimed): in every reachable state at most one of the four
\* sections is visible.
C19_AtMostOneSection ==
    Cardinality(visible) <= 1

\* C20 (as claimed): the loading flag is set exactly while an analyze request
\* is in flight.
C20_LoadingIffAnalyzeInFlight ==
    loading <=> analyzeReqs > 0

====
